---------------------------- MODULE Spec2Model ----------------------------
(***************************************************************************)
(* HomeEase expense tracker (src/homeease/scripts/homeease.py).            *)
(*                                                                         *)
(* The persisted state is three stores: the expense file (DATA_FILE, CSV   *)
(* lines), the category file (CATEGORY_FILE, one name per line) and the    *)
(* backup directory (BACKUP_DIR, files named by the second they were       *)
(* written).  A text is a sequence of one-character strings, so that       *)
(* strip(), the regular expressions of validate_amount, the "{:,.2f}"      *)
(* formatting and the CSV quoting are computed character by character.     *)
(*                                                                         *)
(* The activity log (LOG_FILE) is written by every successful handler and  *)
(* read by none; it is left out of the state.                              *)
(***************************************************************************)
EXTENDS Integers, Sequences, FiniteSets, TLC

VARIABLES
    dataFile,       \* DATA_FILE: sequence of CSV lines (a missing file = <<>>)
    categoryFile,   \* CATEGORY_FILE: sequence of lines
    backups,        \* BACKUP_DIR: function from archive name to file content
    clock,          \* datetime.now(): [day |-> d, sec |-> s]
    console,        \* the terminal after the last handler: the answer typed at
                    \* its first prompt and the status line it printed last
    given,          \* an operation on its own: the text typed ahead for it
    parsed,         \* validate_amount on its own: the value it returned
    stored,         \* ... the text persisted for that value
    reread          \* ... the value validate_amount returns for that text

vars == <<dataFile, categoryFile, backups, clock, console,
          given, parsed, stored, reread>>

-----------------------------------------------------------------------------
(* Bounds of the model *)

MaxRows == 2        \* rows the expense file may hold
MaxSecond == 1      \* seconds the clock may reach
MaxDay == 1         \* days the clock may reach
MaxNewCats == 1     \* lines that may be appended to the category file
MaxLen == 5         \* length of an amount text typed at the prompt
MaxCents == 300     \* width of each window of amounts tried for the round trip
MaxRecords == 5     \* rows of a pre-filled expense file

-----------------------------------------------------------------------------
(* Characters and texts *)

Digits == {"0", "1", "2", "3", "4", "5", "6", "7", "8", "9"}

IsSpace(c) == c = " "

DigitVal(c) ==
    CASE c = "0" -> 0 [] c = "1" -> 1 [] c = "2" -> 2 [] c = "3" -> 3
      [] c = "4" -> 4 [] c = "5" -> 5 [] c = "6" -> 6 [] c = "7" -> 7
      [] c = "8" -> 8 [] c = "9" -> 9

DigitChar(n) ==
    CASE n = 0 -> "0" [] n = 1 -> "1" [] n = 2 -> "2" [] n = 3 -> "3"
      [] n = 4 -> "4" [] n = 5 -> "5" [] n = 6 -> "6" [] n = 7 -> "7"
      [] n = 8 -> "8" [] n = 9 -> "9"

RECURSIVE Pow10(_)
Pow10(k) == IF k = 0 THEN 1 ELSE 10 * Pow10(k - 1)

AllDigits(s) == \A i \in 1..Len(s) : s[i] \in Digits

Count(s, c) == Cardinality({i \in 1..Len(s) : s[i] = c})

\* str.strip(): leading and trailing whitespace removed
RECURSIVE LStrip(_)
LStrip(s) == IF s # <<>> /\ IsSpace(Head(s)) THEN LStrip(Tail(s)) ELSE s

RECURSIVE RStrip(_)
RStrip(s) ==
    IF s # <<>> /\ IsSpace(s[Len(s)]) THEN RStrip(SubSeq(s, 1, Len(s) - 1)) ELSE s

Strip(s) == RStrip(LStrip(s))

\* str.replace(c, ""): every occurrence of c removed
Remove(s, c) == SelectSeq(s, LAMBDA x : x # c)

\* int(text) of a text of digits
RECURSIVE DigitsToNat(_)
DigitsToNat(s) ==
    IF s = <<>> THEN 0
    ELSE 10 * DigitsToNat(SubSeq(s, 1, Len(s) - 1)) + DigitVal(s[Len(s)])

\* str(n) of a natural number
RECURSIVE NatToDigits(_)
NatToDigits(n) ==
    IF n < 10 THEN <<DigitChar(n)>>
    ELSE Append(NatToDigits(n \div 10), DigitChar(n % 10))

\* rich's Prompt.ask: an empty line returns the default, any other line is
\* returned stripped (PromptBase.__call__ / process_response)
NoDefault == <<"<no default>">>

PromptAsk(raw, default) ==
    IF raw = <<>> /\ default # NoDefault THEN default ELSE Strip(raw)

\* the vocabulary written when CATEGORY_FILE does not exist
DefaultCategories == <<
    <<"F", "o", "o", "d">>,
    <<"T", "r", "a", "n", "s", "p", "o", "r", "t">>,
    <<"T", "r", "a", "v", "e", "l">>,
    <<"U", "t", "i", "l", "i", "t", "i", "e", "s">>,
    <<"E", "n", "t", "e", "r", "t", "a", "i", "n", "m", "e", "n", "t">>,
    <<"S", "h", "o", "p", "p", "i", "n", "g">>,
    <<"M", "e", "d", "i", "c", "a", "l">>,
    <<"O", "t", "h", "e", "r">> >>

-----------------------------------------------------------------------------
(* validate_amount and the "{:,.2f}" formatting *)

\* Python's None
None == [none |-> TRUE]

\* A parsed amount is the exact decimal num / 10^scale.
Value(n, k) == [num |-> n, scale |-> k]

\* the same pattern without its closing anchor: re.match(r"^\d+,\d+", s)
MatchCommaTypoUnanchored(s) ==
    \E k \in 2..(Len(s) - 1) :
        /\ s[k] = ","
        /\ AllDigits(SubSeq(s, 1, k - 1))
        /\ s[k + 1] \in Digits

\* re.match(r"^\d+,\d+$", s)
MatchCommaTypo(s) ==
    \E k \in 2..(Len(s) - 1) :
        /\ s[k] = ","
        /\ AllDigits(SubSeq(s, 1, k - 1))
        /\ AllDigits(SubSeq(s, k + 1, Len(s)))

\* re.sub(r"[^\d.,]", "", s)
Clean(s) == SelectSeq(s, LAMBDA c : c \in Digits \cup {".", ","})

\* (,\d{3})* matched against the whole of s
RECURSIVE MatchGroups(_)
MatchGroups(s) ==
    \/ s = <<>>
    \/ /\ Len(s) >= 4
       /\ s[1] = ","
       /\ AllDigits(SubSeq(s, 2, 4))
       /\ MatchGroups(SubSeq(s, 5, Len(s)))

\* re.match(r"^\d{1,3}(,\d{3})*(\.\d+)?$", s)
MatchGrouping(s) ==
    \E h \in 1..3 : \E e \in h..Len(s) :
        /\ AllDigits(SubSeq(s, 1, h))
        /\ MatchGroups(SubSeq(s, h + 1, e))
        /\ \/ e = Len(s)
           \/ /\ e + 2 <= Len(s)
              /\ s[e + 1] = "."
              /\ AllDigits(SubSeq(s, e + 2, Len(s)))

\* float(s) for a text of digits and points: None stands for ValueError
ParseFloat(s) ==
    IF Count(s, ".") > 1 \/ Len(s) = Count(s, ".") \/ ~AllDigits(Remove(s, "."))
    THEN None
    ELSE LET p == IF Count(s, ".") = 0 THEN Len(s) + 1
                  ELSE CHOOSE i \in 1..Len(s) : s[i] = "."
         IN  Value(DigitsToNat(Remove(s, ".")), IF p > Len(s) THEN 0 ELSE Len(s) - p)

validate_amount(input_amount) ==
    LET stripped == Strip(input_amount)
        clean    == Clean(input_amount)
    IN  IF stripped # <<>> /\ Head(stripped) = "-" THEN None
        ELSE IF MatchCommaTypo(stripped) THEN None
        ELSE IF Count(clean, ",") > 0 /\ ~MatchGrouping(clean) THEN None
        ELSE LET value == ParseFloat(Remove(clean, ","))
             IN  IF value = None THEN None
                 ELSE IF value.num <= 0 THEN None
                 ELSE value

\* round(value * 100): the value in cents, as "{:.2f}" rounds it.  A decimal
\* tie (a remainder of exactly half a cent) is settled by the binary float
\* nearest the decimal, which this decimal model does not carry; it is written
\* half-even here, and the amount texts of the model use the digits 0, 1 and
\* 9 only, so that no tie arises.
RoundCents(value) ==
    IF value.scale <= 2 THEN value.num * Pow10(2 - value.scale)
    ELSE LET d == Pow10(value.scale - 2)
             q == value.num \div d
             r == value.num % d
         IN  IF 2 * r > d THEN q + 1
             ELSE IF 2 * r < d THEN q
             ELSE IF q % 2 = 0 THEN q ELSE q + 1

\* the "," option of the format: a comma before every group of three digits
\* counted from the right
RECURSIVE GroupThousands(_)
GroupThousands(ds) ==
    IF Len(ds) <= 3 THEN ds
    ELSE GroupThousands(SubSeq(ds, 1, Len(ds) - 3))
            \o <<",">> \o SubSeq(ds, Len(ds) - 2, Len(ds))

\* f"{amount:,.2f}"
FormatAmount(value) ==
    LET cents == RoundCents(value)
    IN  GroupThousands(NatToDigits(cents \div 100))
            \o <<".", DigitChar((cents % 100) \div 10), DigitChar(cents % 10)>>

\* float(row[3].replace(",", "")) of display_table: the stored text read back
ReadStoredAmount(text) == ParseFloat(Remove(text, ","))

-----------------------------------------------------------------------------
(* The CSV dialect of csv.writer / csv.reader (excel: delimiter ",",        *)
(* quotechar '"', doublequote, QUOTE_MINIMAL).  A line is kept without its  *)
(* "\r\n" terminator; no text of the model holds a line break.              *)

Quote == "\""

RECURSIVE Join(_, _)
Join(texts, sep) ==
    IF texts = <<>> THEN <<>>
    ELSE IF Len(texts) = 1 THEN texts[1]
    ELSE texts[1] \o sep \o Join(Tail(texts), sep)

RECURSIVE DoubleQuotes(_)
DoubleQuotes(s) ==
    IF s = <<>> THEN <<>>
    ELSE (IF Head(s) = Quote THEN <<Quote, Quote>> ELSE <<Head(s)>>)
            \o DoubleQuotes(Tail(s))

CsvField(field) ==
    IF \E i \in 1..Len(field) : field[i] \in {",", Quote}
    THEN <<Quote>> \o DoubleQuotes(field) \o <<Quote>>
    ELSE field

\* csv.writer(f).writerow(fields)
CsvWriteRow(fields) ==
    Join([i \in 1..Len(fields) |-> CsvField(fields[i])], <<",">>)

\* the reader's state machine over one line, from character i on
RECURSIVE CsvScan(_, _, _, _, _)
CsvScan(line, i, state, field, fields) ==
    IF i > Len(line)
    THEN IF state = "START_RECORD" THEN <<>> ELSE Append(fields, field)
    ELSE LET c == line[i] IN
         CASE state \in {"START_RECORD", "START_FIELD"} ->
                IF c = Quote THEN CsvScan(line, i + 1, "IN_QUOTED_FIELD", <<>>, fields)
                ELSE IF c = "," THEN CsvScan(line, i + 1, "START_FIELD", <<>>, Append(fields, <<>>))
                ELSE CsvScan(line, i + 1, "IN_FIELD", <<c>>, fields)
           [] state = "IN_FIELD" ->
                IF c = "," THEN CsvScan(line, i + 1, "START_FIELD", <<>>, Append(fields, field))
                ELSE CsvScan(line, i + 1, "IN_FIELD", Append(field, c), fields)
           [] state = "IN_QUOTED_FIELD" ->
                IF c = Quote THEN CsvScan(line, i + 1, "QUOTE_IN_QUOTED_FIELD", field, fields)
                ELSE CsvScan(line, i + 1, "IN_QUOTED_FIELD", Append(field, c), fields)
           [] state = "QUOTE_IN_QUOTED_FIELD" ->
                IF c = Quote THEN CsvScan(line, i + 1, "IN_QUOTED_FIELD", Append(field, c), fields)
                ELSE IF c = "," THEN CsvScan(line, i + 1, "START_FIELD", <<>>, Append(fields, field))
                ELSE CsvScan(line, i + 1, "IN_FIELD", Append(field, c), fields)

\* one row of csv.reader(f)
CsvReadRow(line) == CsvScan(line, 1, "START_RECORD", <<>>, <<>>)

\* list(csv.reader(open(DATA_FILE)))
CsvReadRows(file) == [i \in 1..Len(file) |-> CsvReadRow(file[i])]

\* csv.writer(f).writerows(rows)
CsvWriteRows(rows) == [i \in 1..Len(rows) |-> CsvWriteRow(rows[i])]

-----------------------------------------------------------------------------
(* Categories *)

AsciiLetters ==
    {"a", "b", "c", "d", "e", "f", "g", "h", "i", "j", "k", "l", "m", "n", "o",
     "p", "q", "r", "s", "t", "u", "v", "w", "x", "y", "z",
     "A", "B", "C", "D", "E", "F", "G", "H", "I", "J", "K", "L", "M", "N", "O",
     "P", "Q", "R", "S", "T", "U", "V", "W", "X", "Y", "Z"}

load_categories ==
    SelectSeq([i \in 1..Len(categoryFile) |-> Strip(categoryFile[i])],
              LAMBDA line : line # <<>>)

save_category(new_cat) == Append(categoryFile, new_cat)

\* re.search(r"[A-Za-z]", cat)
is_valid_category(cat) == \E i \in 1..Len(cat) : cat[i] \in AsciiLetters

\* str.isdigit() for the texts of the model
IsDigitText(s) == s # <<>> /\ AllDigits(s)

\* list.index: None when the value is not in the list
InList(x, list) == \E i \in 1..Len(list) : list[i] = x

-----------------------------------------------------------------------------
(* The clock *)

TwoDigits(n) == <<DigitChar(n \div 10), DigitChar(n % 10)>>

\* datetime.now().strftime("%Y-%m-%d"); day 0 of the model is 2024-01-01
DateText(now) ==
    <<"2", "0", "2", "4", "-", "0", "1", "-">> \o TwoDigits(now.day + 1)

\* a name by the day alone, as strftime('%Y%m%d') would give
BackupNameByDay(now) == [day |-> now.day, sec |-> 0]

\* the timestamp of strftime('%Y%m%d_%H%M%S') in the archive's name: the
\* day and the second, nothing finer
BackupName(now) == [day |-> now.day, sec |-> now.sec]

NameBefore(a, b) == a.day < b.day \/ (a.day = b.day /\ a.sec < b.sec)

\* sorted(BACKUP_DIR.glob("backup_*.csv"))
RECURSIVE SortedNames(_)
SortedNames(names) ==
    IF names = {} THEN <<>>
    ELSE LET first == CHOOSE a \in names : \A b \in names \ {a} : NameBefore(a, b)
         IN  <<first>> \o SortedNames(names \ {first})

\* shutil.copy(src, dst): dst holds src's bytes, whether or not dst existed
CopyInto(dir, name, content) ==
    [n \in DOMAIN dir \cup {name} |-> IF n = name THEN content ELSE dir[n]]

Tick ==
    /\ clock.sec < MaxSecond
    /\ clock' = [clock EXCEPT !.sec = @ + 1]
    /\ UNCHANGED <<dataFile, categoryFile, backups, console>>
    /\ UNCHANGED <<given, parsed, stored, reread>>

NextDay ==
    /\ clock.day < MaxDay
    /\ clock' = [day |-> clock.day + 1, sec |-> 0]
    /\ UNCHANGED <<dataFile, categoryFile, backups, console>>
    /\ UNCHANGED <<given, parsed, stored, reread>>

-----------------------------------------------------------------------------
(* The handlers of the menu.  Each is one step: the handler runs from its   *)
(* first prompt to its return.  A prompt that rejects its answer asks       *)
(* again, so an answer a handler rejects in a loop enables no step; the     *)
(* parameters are the answers it accepts, or the answer it reports an       *)
(* error for.                                                               *)

Absent == <<"absent">>
Pending == [pending |-> TRUE]

Screen(typed, said) == [typed |-> typed, said |-> said]

PureUnchanged == UNCHANGED <<given, parsed, stored, reread>>

FilesUnchanged == UNCHANGED <<dataFile, categoryFile, backups>>

\* list.index(x): position of the first occurrence
IndexOf(x, list) == CHOOSE i \in 1..Len(list) : list[i] = x /\ \A j \in 1..(i - 1) : list[j] # x

add_expense(choiceRaw, newCatRaw, descRaw, amtRaw) ==
    LET categories  == load_categories
        choiceText  == Strip(PromptAsk(choiceRaw, NoDefault))
        choice      == DigitsToNat(choiceText)
        other       == choice = Len(categories) + 1
        new_cat     == Strip(PromptAsk(newCatRaw, NoDefault))
        category    == IF other THEN new_cat ELSE categories[choice]
        description == Strip(PromptAsk(descRaw, NoDefault))
        amount      == validate_amount(PromptAsk(amtRaw, NoDefault))
    IN  /\ IsDigitText(choiceText)
        /\ choice \in 1..(Len(categories) + 1)
        /\ other => is_valid_category(new_cat)
        /\ description # <<>>
        /\ amount # None
        /\ categoryFile' = IF other THEN save_category(new_cat) ELSE categoryFile
        /\ dataFile' = Append(dataFile,
               CsvWriteRow(<<DateText(clock), category, description, FormatAmount(amount)>>))
        /\ console' = Screen(choiceRaw, "Expense added successfully!")
        /\ UNCHANGED <<backups, clock>>
        /\ PureUnchanged

\* a row rewritten with the date of the edit
EditedRowDatedToday(row, category, description, amount) ==
    <<DateText(clock), category, description, amount>>

\* rows[idx][1], rows[idx][2] and rows[idx][3] assigned; rows[idx][0] kept
EditedRow(row, category, description, amount) ==
    <<row[1], category, description, amount>>

edit_expense(idRaw, choiceRaw, newCatRaw, descRaw, amtRaw) ==
    LET rows      == CsvReadRows(dataFile)
        choice_id == Strip(PromptAsk(idRaw, NoDefault))
        idx       == DigitsToNat(choice_id) - 1
    IN  /\ UNCHANGED <<backups, clock>>
        /\ PureUnchanged
        /\ IF dataFile = <<>>
           THEN /\ console' = Screen(<<>>, "No records found to edit. Add an expense first!")
                /\ UNCHANGED <<dataFile, categoryFile>>
           ELSE IF ~IsDigitText(choice_id) \/ ~(0 <= idx /\ idx < Len(rows))
           THEN /\ console' = Screen(idRaw, "Invalid ID")
                /\ UNCHANGED <<dataFile, categoryFile>>
           ELSE LET row             == rows[idx + 1]
                    categories      == load_categories
                    current_cat     == row[2]
                    current_cat_idx ==
                        IF InList(current_cat, categories)
                        THEN NatToDigits(IndexOf(current_cat, categories))
                        ELSE NatToDigits(Len(categories) + 1)
                    choiceText  == Strip(PromptAsk(choiceRaw, current_cat_idx))
                    choice      == DigitsToNat(choiceText)
                    other       == choice = Len(categories) + 1
                    new_cat     == Strip(PromptAsk(newCatRaw, current_cat))
                    category    == IF other THEN new_cat ELSE categories[choice]
                    description == PromptAsk(descRaw, row[3])
                    amt         == validate_amount(PromptAsk(amtRaw, row[4]))
                    saved       == other /\ ~InList(new_cat, categories)
                IN  /\ IsDigitText(choiceText)
                    /\ choice \in 1..(Len(categories) + 1)
                    /\ other => is_valid_category(new_cat)
                    /\ amt # None
                    /\ categoryFile' = IF saved THEN save_category(new_cat) ELSE categoryFile
                    /\ dataFile' = CsvWriteRows(
                           [rows EXCEPT ![idx + 1] =
                               EditedRow(row, category, description, FormatAmount(amt))])
                    /\ console' = Screen(idRaw, "Update successful!")

\* str.upper() for the characters of a delete request
UpperChar(c) ==
    CASE c = "a" -> "A" [] c = "l" -> "L" [] c = "x" -> "X" [] OTHER -> c

Upper(s) == [i \in 1..Len(s) |-> UpperChar(s[i])]

\* str.split(","): at least one piece
RECURSIVE Split(_, _)
Split(s, piece) ==
    IF s = <<>> THEN <<piece>>
    ELSE IF Head(s) = "," THEN <<piece>> \o Split(Tail(s), <<>>)
    ELSE Split(Tail(s), Append(piece, Head(s)))

\* int(text): an optional sign and digits, blanks around them allowed;
\* anything else is a ValueError
IntOk(text) ==
    LET t == Strip(text)
    IN  \/ IsDigitText(t)
        \/ Len(t) >= 2 /\ t[1] \in {"-", "+"} /\ AllDigits(Tail(t))

IntOf(text) ==
    LET t == Strip(text)
    IN  IF t[1] = "-" THEN 0 - DigitsToNat(Tail(t))
        ELSE IF t[1] = "+" THEN DigitsToNat(Tail(t))
        ELSE DigitsToNat(t)

\* sorted(set)
RECURSIVE Sorted(_)
Sorted(set) ==
    IF set = {} THEN <<>>
    ELSE LET least == CHOOSE a \in set : \A b \in set : a <= b
         IN  <<least>> \o Sorted(set \ {least})

\* reversed(list)
Reversed(list) == [i \in 1..Len(list) |-> list[Len(list) + 1 - i]]

\* list.pop(i), i counted from 0
Pop(rows, i) == SubSeq(rows, 1, i) \o SubSeq(rows, i + 2, Len(rows))

\* the valid positions popped from the first to the last
PopOrderAscending(valid_ids) == valid_ids

\* the order in which delete_expense pops the valid positions:
\* for i in reversed(valid_ids)
PopOrder(valid_ids) == Reversed(valid_ids)

\* for i in order: rows.pop(i)
RECURSIVE PopAll(_, _)
PopAll(rows, order) ==
    IF order = <<>> THEN rows ELSE PopAll(Pop(rows, Head(order)), Tail(order))

\* whether every pop of the loop finds its position (else IndexError)
RECURSIVE PopsInRange(_, _)
PopsInRange(n, order) ==
    \/ order = <<>>
    \/ Head(order) < n /\ PopsInRange(n - 1, Tail(order))

delete_expense(choiceRaw, confirm) ==
    LET rows   == CsvReadRows(dataFile)
        choice == Upper(Strip(PromptAsk(choiceRaw, NoDefault)))
        pieces == Split(choice, <<>>)
    IN  /\ UNCHANGED <<categoryFile, backups, clock>>
        /\ PureUnchanged
        /\ IF dataFile = <<>>
           THEN /\ console' = Screen(<<>>, "No records found to delete!")
                /\ UNCHANGED dataFile
           ELSE IF choice = <<"A", "L", "L">>
           THEN IF confirm
                THEN /\ dataFile' = <<>>
                     /\ console' = Screen(choiceRaw, "All data deleted")
                ELSE /\ console' = Screen(choiceRaw, "DELETE OPTIONS")
                     /\ UNCHANGED dataFile
           ELSE IF \E k \in 1..Len(pieces) : ~IntOk(pieces[k])
           THEN /\ console' = Screen(choiceRaw, "Invalid input format")
                /\ UNCHANGED dataFile
           ELSE LET ids       == Sorted({IntOf(pieces[k]) - 1 : k \in 1..Len(pieces)})
                    valid_ids == SelectSeq(ids, LAMBDA i : 0 <= i /\ i < Len(rows))
                IN  IF valid_ids = <<>>
                    THEN /\ console' = Screen(choiceRaw, "No valid IDs provided")
                         /\ UNCHANGED dataFile
                    ELSE IF ~confirm
                    THEN /\ console' = Screen(choiceRaw, "DELETE OPTIONS")
                         /\ UNCHANGED dataFile
                    ELSE IF ~PopsInRange(Len(rows), PopOrder(valid_ids))
                    THEN /\ console' = Screen(choiceRaw, "IndexError: pop index out of range")
                         /\ UNCHANGED dataFile
                    ELSE /\ dataFile' = CsvWriteRows(PopAll(rows, PopOrder(valid_ids)))
                         /\ console' = Screen(choiceRaw, "Selected expenses deleted")

\* backup_data without the return that follows its report of an empty file
backup_data_without_return ==
    /\ UNCHANGED <<dataFile, categoryFile, clock>>
    /\ PureUnchanged
    /\ backups' = CopyInto(backups, BackupName(clock), dataFile)
    /\ console' = Screen(<<>>, "Backup saved")

backup_data ==
    /\ UNCHANGED <<dataFile, categoryFile, clock>>
    /\ PureUnchanged
    /\ IF dataFile = <<>>
       THEN /\ console' = Screen(<<>>, "Cannot create backup: There are no records to save.")
            /\ UNCHANGED backups
       ELSE /\ backups' = CopyInto(backups, BackupName(clock), dataFile)
            /\ console' = Screen(<<>>, "Backup saved")

\* an append that leaves out the rows the file already holds
AppendRowsNotYetThere(file, rows) ==
    file \o SelectSeq(CsvWriteRows(rows), LAMBDA line : ~InList(line, file))

\* open(DATA_FILE, "a") ... writer.writerows(reader)
AppendRows(file, rows) == file \o CsvWriteRows(rows)

recover_data(choiceRaw, mode) ==
    LET names  == SortedNames(DOMAIN backups)
        choice == Strip(PromptAsk(choiceRaw, NoDefault))
        idx    == DigitsToNat(choice) - 1
    IN  /\ UNCHANGED <<categoryFile, backups, clock>>
        /\ PureUnchanged
        /\ IF names = <<>>
           THEN /\ console' = Screen(<<>>, "No backups found")
                /\ UNCHANGED dataFile
           ELSE IF ~IsDigitText(choice)
           THEN /\ console' = Screen(choiceRaw, "Invalid input. Please enter a numeric ID.")
                /\ UNCHANGED dataFile
           ELSE IF ~(0 <= idx /\ idx < Len(names))
           THEN /\ console' = Screen(choiceRaw, "Error: Backup ID does not exist.")
                /\ UNCHANGED dataFile
           ELSE IF mode = "cancel"
           THEN /\ console' = Screen(choiceRaw, "Recovery cancelled.")
                /\ UNCHANGED dataFile
           ELSE IF mode = "overwrite"
           THEN /\ dataFile' = backups[names[idx + 1]]
                /\ console' = Screen(choiceRaw, "Recovery successful via overwrite!")
           ELSE /\ dataFile' = AppendRows(dataFile, CsvReadRows(backups[names[idx + 1]]))
                /\ console' = Screen(choiceRaw, "Recovery successful via append!")

-----------------------------------------------------------------------------
(* The answers typed in the model *)

Food == <<"F", "o", "o", "d">>
GymTyped == <<" ", "G", "y", "m">>
Blank == <<" ">>
Thousand == <<"$", "1", ",", "0", "0", "0">>
Thousandth == <<"0", ".", "0", "0", "1">>

\* the number the category table shows beside "Other / Add New Category"
OtherChoice == NatToDigits(Len(load_categories) + 1)

\* the IDs typed at "ID to EDIT" and "Select backup ID"
TypedIds(max) == {NatToDigits(i) : i \in 0..max}

DeleteOptions ==
    {<<"a", "l", "l">>, <<"1">>, <<"2", ",", "1">>, <<"9">>, <<"x">>}

PureIdle ==
    /\ given = Absent
    /\ parsed = Pending
    /\ stored = Absent
    /\ reread = Pending

\* what the model lets the files grow to
WithinBounds ==
    /\ Len(dataFile') <= MaxRows
    /\ Len(categoryFile') <= Len(DefaultCategories) + MaxNewCats

-----------------------------------------------------------------------------
(* The program: every handler of the menu, on one day, from the empty       *)
(* store.  Every expense is typed the same way, so that the expense file    *)
(* and the archives differ in their number of rows only.                    *)

Init ==
    /\ dataFile = <<>>
    /\ categoryFile = DefaultCategories
    /\ backups = <<>>
    /\ clock = [day |-> 0, sec |-> 0]
    /\ console = Screen(<<>>, "")
    /\ PureIdle

AddStep ==
    \E choiceRaw \in {<<"1">>, OtherChoice} :
        /\ add_expense(choiceRaw, Food, <<"a">>, Thousand)
        /\ WithinBounds

EditStep ==
    \E idRaw \in TypedIds(MaxRows + 1) :
        edit_expense(idRaw, <<>>, <<>>, <<>>, <<>>)

DeleteStep ==
    \E choiceRaw \in DeleteOptions : \E confirm \in BOOLEAN :
        delete_expense(choiceRaw, confirm)

BackupStep == backup_data

RecoverStep ==
    \E choiceRaw \in TypedIds(MaxSecond + 2) :
    \E mode \in {"overwrite", "append", "cancel"} :
        /\ recover_data(choiceRaw, mode)
        /\ WithinBounds

Next == Tick \/ AddStep \/ EditStep \/ DeleteStep \/ BackupStep \/ RecoverStep

Spec == Init /\ [][Next]_vars

-----------------------------------------------------------------------------
(* The expense file and the category file over several days, from the       *)
(* empty store, with a wider choice of answers and no backups.              *)

AddStepStore ==
    \E cat \in {<<<<"1">>, <<>>>>, <<OtherChoice, Food>>, <<OtherChoice, GymTyped>>} :
    \E descRaw \in {<<"a", ",", "b">>, Blank} :
    \E amtRaw \in {Thousandth, Thousand} :
        /\ add_expense(cat[1], cat[2], descRaw, amtRaw)
        /\ WithinBounds

EditStepStore ==
    \E idRaw \in TypedIds(MaxRows + 1) :
    \E ans \in {<<<<>>, <<>>, <<>>, <<>>>>,
                <<<<"1">>, <<>>, <<>>, Thousand>>,
                <<OtherChoice, GymTyped, <<>>, <<>>>>,
                <<OtherChoice, <<>>, Blank, Thousandth>>} :
        /\ edit_expense(idRaw, ans[1], ans[2], ans[3], ans[4])
        /\ WithinBounds

NextStore == NextDay \/ AddStepStore \/ EditStepStore \/ DeleteStep

SpecStore == Init /\ [][NextStore]_vars

-----------------------------------------------------------------------------
(* One handler on its own, on a store filled before: the answer to the      *)
(* handler's first prompt is typed ahead (given) and the handler is called  *)
(* again and again with it.                                                 *)

Transport == DefaultCategories[2]

\* the row add_expense wrote for the i-th expense: two expenses a day
SampleRow(i) ==
    CsvWriteRow(<<DateText([day |-> (i - 1) \div 2, sec |-> 0]),
                  IF i % 2 = 1 THEN Food ELSE Transport,
                  <<"r", DigitChar(i)>>,
                  FormatAmount(Value(i * 40000, 2))>>)

SampleFile(n) == [i \in 1..n |-> SampleRow(i)]

Later == [day |-> MaxRecords, sec |-> 0]

InitFilled ==
    /\ categoryFile = DefaultCategories
    /\ clock = Later
    /\ console = Screen(<<>>, "")
    /\ parsed = Pending
    /\ stored = Absent
    /\ reread = Pending

\* delete_expense, for every request that names a set of IDs
IdPool == (0..MaxRecords) \cup {99}

\* a request: the IDs of a set, typed in ascending or in descending order,
\* or ascending with the first one typed once more at the end
Requests == {r \in [ids : SUBSET IdPool, form : {"up", "down", "again"}] : r.ids # {}}

RequestText(r) ==
    LET up    == Sorted(r.ids)
        order == CASE r.form = "up" -> up
                   [] r.form = "down" -> Reversed(up)
                   [] r.form = "again" -> Append(up, up[1])
    IN  Join([i \in 1..Len(order) |-> NatToDigits(order[i])], <<",">>)

InitDelete ==
    /\ InitFilled
    /\ dataFile \in {SampleFile(n) : n \in 1..MaxRecords}
    /\ backups = <<>>
    /\ given \in {RequestText(r) : r \in Requests}

DeleteGiven == \E confirm \in BOOLEAN : delete_expense(given, confirm)

SpecDelete == InitDelete /\ [][DeleteGiven]_vars

\* edit_expense, for every ID
EditAnswers ==
    {<<<<>>, <<>>, <<>>, <<>>>>,
     <<<<"2">>, <<>>, <<>>, <<>>>>,
     <<<<"1">>, <<>>, <<"b", ",", "c">>, <<"1">>>>,
     <<OtherChoice, GymTyped, <<>>, <<>>>>,
     <<OtherChoice, <<>>, Blank, <<>>>>,
     <<<<>>, <<>>, <<Quote, "q", Quote>>, Thousand>>,
     <<<<>>, <<>>, <<>>, <<"9", "9", "9", ".", "9", "9", "9">>>>}

InitEdit ==
    /\ InitFilled
    /\ dataFile \in {SampleFile(n) : n \in 1..MaxRecords}
    /\ backups = <<>>
    /\ given \in TypedIds(MaxRecords + 1)

EditGiven ==
    \E ans \in EditAnswers : edit_expense(given, ans[1], ans[2], ans[3], ans[4])

SpecEdit == InitEdit /\ [][EditGiven]_vars

\* recover_data, for every archive ID: the expense file holds the first
\* rows, each archive holds the last rows as they were backed up before
Archive(from) == SubSeq(SampleFile(MaxRecords), from, MaxRecords)

ArchiveName(k) == BackupName([day |-> 0, sec |-> k])

InitRestore ==
    /\ InitFilled
    /\ dataFile \in {SampleFile(n) : n \in 0..MaxRecords}
    /\ \E a \in 1..MaxRecords, b \in 0..MaxRecords :
          backups = IF b = 0
                    THEN CopyInto(<<>>, ArchiveName(0), Archive(a))
                    ELSE CopyInto(CopyInto(<<>>, ArchiveName(0), Archive(a)),
                                  ArchiveName(1), Archive(b))
    /\ given \in TypedIds(3)

RecoverGiven ==
    \E mode \in {"overwrite", "append", "cancel"} :
        /\ recover_data(given, mode)
        /\ Len(dataFile') <= 2 * MaxRecords

SpecRestore == InitRestore /\ [][RecoverGiven]_vars

-----------------------------------------------------------------------------
(* validate_amount and the formatting on their own: a text is typed, or a    *)
(* value is given; the value is formatted as add_expense and edit_expense    *)
(* persist it; the persisted text is offered again as edit_expense's         *)
(* pre-filled default.                                                       *)

AmountChars == {"0", "1", "9", ",", ".", "-", " ", "$"}

AmountTexts == UNION {[1..n -> AmountChars] : n \in 0..MaxLen}

\* amounts of at most two fraction digits: around 0, 1,000 and 1,000,000
CentWindows ==
    (1..MaxCents) \cup ((100000 - MaxCents)..(100000 + MaxCents))
        \cup ((100000000 - MaxCents)..(100000000 + MaxCents))

GivenValues ==
    {Value(c, 2) : c \in CentWindows} \cup {Value(c, 1) : c \in 1..MaxCents}
        \cup {Value(c, 0) : c \in 1..MaxCents}

InitAmount ==
    /\ dataFile = <<>>
    /\ categoryFile = DefaultCategories
    /\ backups = <<>>
    /\ clock = [day |-> 0, sec |-> 0]
    /\ console = Screen(<<>>, "")
    /\ stored = Absent
    /\ reread = Pending
    /\ \/ given \in AmountTexts /\ parsed = Pending
       \/ given = Absent /\ parsed \in GivenValues

StoreUnchanged == UNCHANGED <<dataFile, categoryFile, backups, clock, console>>

Validate ==
    /\ given # Absent
    /\ parsed = Pending
    /\ parsed' = validate_amount(given)
    /\ UNCHANGED <<given, stored, reread>>
    /\ StoreUnchanged

Persist ==
    /\ parsed \notin {Pending, None}
    /\ stored = Absent
    /\ stored' = FormatAmount(parsed)
    /\ UNCHANGED <<given, parsed, reread>>
    /\ StoreUnchanged

Reread ==
    /\ stored # Absent
    /\ reread = Pending
    /\ reread' = validate_amount(PromptAsk(<<>>, stored))
    /\ UNCHANGED <<given, parsed, stored>>
    /\ StoreUnchanged

NextAmount == Validate \/ Persist \/ Reread

SpecAmount == InitAmount /\ [][NextAmount]_vars

-----------------------------------------------------------------------------
(* Properties *)

Rows == CsvReadRows(dataFile)

\* the ordinals 1..n written in a request: k is requested when its decimal
\* form is one of the comma-separated pieces
Requested(text, n) ==
    LET whole == <<",">> \o Remove(text, " ") \o <<",">>
    IN  {k \in 1..n :
            LET piece == <<",">> \o NatToDigits(k) \o <<",">>
            IN  \E i \in 1..(Len(whole) - Len(piece) + 1) :
                    SubSeq(whole, i, i + Len(piece) - 1) = piece}

\* the lines of a file at the positions outside ids, in their order
RECURSIVE KeepFrom(_, _, _)
KeepFrom(file, i, ids) ==
    IF i > Len(file) THEN <<>>
    ELSE (IF i \in ids THEN <<>> ELSE <<file[i]>>) \o KeepFrom(file, i + 1, ids)

\* C1: a confirmed delete of a list of IDs removes exactly the rows whose
\* ordinal is in the list, whatever else the list holds and however often
\* an ID is repeated; the other rows stay, in their order.  An ID outside
\* 1..n never fails the request: the request fails only when no ID is inside.
C1_DeleteMany ==
    [][LET targets == Requested(given, Len(dataFile))
           said    == console'.said
       IN  /\ said \notin {"Invalid input format", "IndexError: pop index out of range"}
           /\ said = "Selected expenses deleted" =>
                 targets # {} /\ dataFile' = KeepFrom(dataFile, 1, targets)
           /\ said = "No valid IDs provided" =>
                 targets = {} /\ dataFile' = dataFile
           /\ targets # {} => said \in {"Selected expenses deleted", "DELETE OPTIONS"}
      ]_vars

C1_Witness ==
    /\ given = <<"2", ",", "5", ",", "9", "9">>
    /\ console.said = "Selected expenses deleted"
    /\ dataFile = <<SampleRow(1), SampleRow(3), SampleRow(4)>>

\* C2: the amount of every row of the expense file is greater than zero.
C2_AmountPositive ==
    \A i \in 1..Len(dataFile) :
        LET amount == ReadStoredAmount(Rows[i][4])
        IN  amount # None /\ amount.num > 0

\* the shape of a grouped amount: one to three digits, then groups of a
\* comma and three digits, then optionally a point and digits
StrictGrouping(text) ==
    LET point    == IF Count(text, ".") = 0 THEN Len(text) + 1
                    ELSE CHOOSE i \in 1..Len(text) : text[i] = "."
        whole    == Split(SubSeq(text, 1, point - 1), <<>>)
        fraction == SubSeq(text, point + 1, Len(text))
    IN  /\ Count(text, ".") <= 1
        /\ Len(whole[1]) \in 1..3
        /\ \A k \in 2..Len(whole) : Len(whole[k]) = 3
        /\ \A k \in 1..Len(whole) : AllDigits(whole[k])
        /\ point <= Len(text) => fraction # <<>> /\ AllDigits(fraction)

\* two amounts are the same number
SameValue(a, b) ==
    LET m == IF a.scale > b.scale THEN a.scale ELSE b.scale
    IN  a.num * Pow10(m - a.scale) = b.num * Pow10(m - b.scale)

\* C3: a text in the grouped shape is accepted with the value of the same
\* text without its commas (when that value is accepted), and a text whose
\* commas do not fit the shape is rejected.
C3_GroupingAccepted ==
    (given # Absent /\ parsed # Pending) =>
        LET ungrouped == validate_amount(Remove(given, ","))
        IN  /\ (StrictGrouping(given) /\ ungrouped # None) =>
                   parsed # None /\ SameValue(parsed, ungrouped)
            /\ (Count(Clean(given), ",") > 0 /\ ~StrictGrouping(Clean(given))) =>
                   parsed = None

\* C4: no name is twice in the list load_categories returns.
C4_DistinctCategories ==
    \A i, j \in 1..Len(load_categories) :
        i # j => load_categories[i] # load_categories[j]

\* C5: a successful edit of the row at an ordinal keeps the number of rows,
\* every other row, and the date of the row it edits.
C5_EditFrame ==
    [][console'.said = "Update successful!" =>
          LET k   == DigitsToNat(given)
              old == CsvReadRows(dataFile)
              new == CsvReadRows(dataFile')
          IN  /\ k \in 1..Len(dataFile)
              /\ Len(dataFile') = Len(dataFile)
              /\ \A i \in 1..Len(dataFile) : i # k => dataFile'[i] = dataFile[i]
              /\ Len(new[k]) = 4
              /\ new[k][1] = old[k][1]
      ]_vars

C5_Witness ==
    /\ given = <<"2">>
    /\ console.said = "Update successful!"
    /\ Len(dataFile) = 3
    /\ dataFile[1] = SampleRow(1)
    /\ dataFile[3] = SampleRow(3)
    /\ Rows[2] = <<DateText([day |-> 0, sec |-> 0]), <<"G", "y", "m">>, <<"r", "2">>,
                   <<"8", "0", "0", ".", "0", "0">>>>

\* the archive the k-th line of the listing names: k - 1 archives are older
Listed(k) ==
    {n \in DOMAIN backups :
        Cardinality({m \in DOMAIN backups : NameBefore(m, n)}) = k - 1}

\* C6: restoring an archive with overwrite leaves the expense file equal to
\* the archive; with append it leaves the rows it had followed by the
\* archive's rows; the archives are as they were.
C6_Restore ==
    [][console'.said \in {"Recovery successful via overwrite!",
                          "Recovery successful via append!"} =>
          \E n \in Listed(DigitsToNat(given)) :
              /\ console'.said = "Recovery successful via overwrite!" =>
                     dataFile' = backups[n]
              /\ console'.said = "Recovery successful via append!" =>
                     dataFile' = dataFile \o backups[n]
              /\ backups' = backups
      ]_vars

C6_Witness ==
    /\ given = <<"1">>
    /\ console.said = "Recovery successful via append!"
    /\ dataFile = SampleFile(MaxRecords) \o Archive(MaxRecords - 1)
    /\ backups[ArchiveName(0)] = Archive(MaxRecords - 1)

\* C7, as stated: no step removes an archive or changes what it holds.
C7_ArchivesNeverChange ==
    [][\A n \in DOMAIN backups :
          n \in DOMAIN backups' /\ backups'[n] = backups[n]]_vars

\* C7: no step removes an archive, and an archive changes only when a
\* backup is made within the second the archive is named by, which leaves
\* in it the rows the expense file has then.
C7_ArchivesChangeWithinTheirSecond ==
    [][\A n \in DOMAIN backups :
          /\ n \in DOMAIN backups'
          /\ \/ backups'[n] = backups[n]
             \/ /\ n.day = clock.day /\ n.sec = clock.sec
                /\ console'.said = "Backup saved"
                /\ backups'[n] = dataFile
      ]_vars

C7_Witness ==
    /\ Cardinality(DOMAIN backups) = 2
    /\ \E n, m \in DOMAIN backups :
          /\ NameBefore(n, m)
          /\ Len(backups[n]) = 1
          /\ Len(backups[m]) = 2
    /\ dataFile = <<>>

\* C8: a handler that reports an invalid ID, no valid IDs, nothing to back
\* up or an unknown backup leaves the expense file, the archives and the
\* category file as they were; and a handler reports success only when the
\* ID it was given is one of the listing, or the file has rows to back up.
\* (The steps of the handlers are the steps that leave the clock alone.)
C8_ErrorsChangeNothing ==
    [][LET said == console'.said
           id   == DigitsToNat(console'.typed)
       IN  clock' = clock =>
           /\ said \in {"Invalid ID", "No valid IDs provided",
                        "Cannot create backup: There are no records to save.",
                        "Error: Backup ID does not exist."} =>
                  UNCHANGED <<dataFile, backups, categoryFile>>
           /\ said = "Update successful!" => id \in 1..Len(dataFile)
           /\ said = "Selected expenses deleted" =>
                  Requested(console'.typed, Len(dataFile)) # {}
           /\ said = "Backup saved" => dataFile # <<>>
           /\ said \in {"Recovery successful via overwrite!",
                        "Recovery successful via append!"} =>
                  id \in 1..Cardinality(DOMAIN backups)
      ]_vars

C8_Witness ==
    /\ console.said = "Error: Backup ID does not exist."
    /\ dataFile # <<>>
    /\ DOMAIN backups # {}
    /\ Len(categoryFile) > Len(DefaultCategories)

\* an amount of at most two fraction digits
AtMostTwoFractionDigits(value) ==
    value.scale <= 2 \/ value.num % Pow10(value.scale - 2) = 0

\* C9: the text persisted for an amount of at most two fraction digits is
\* accepted when it is given back, with the value of the amount, and is
\* persisted again as the same text.
C9_RoundTrip ==
    (reread # Pending /\ AtMostTwoFractionDigits(parsed)) =>
        /\ reread # None
        /\ SameValue(reread, parsed)
        /\ FormatAmount(reread) = stored

C9_Witness ==
    /\ reread # Pending
    /\ parsed = Value(100050, 2)
    /\ stored = <<"1", ",", "0", "0", "0", ".", "5", "0">>

\* C10: the description of every row of the expense file is not empty.
C10_DescriptionNotEmpty ==
    \A i \in 1..Len(dataFile) : Rows[i][3] # <<>>

=============================================================================
